---- MODULE Spec2Model ----
(***************************************************************************)
(* Model of scripts/generate-stress-jsonl.py: the four coordinate pattern  *)
(* generators, the color helpers and the streaming emission loop of main.  *)
(*                                                                         *)
(* Reals are fixed-point integers counted in thousandths (Unit == 1000),   *)
(* the resolution round(x, 3) keeps in circle_ring_points.  A Python       *)
(* generator is a record holding its local variables and the place it is   *)
(* suspended at; one call of next() runs it to its next yield.             *)
(***************************************************************************)
EXTENDS Integers, Sequences, FiniteSets, TLC

\* ------------------------------------------------------------------ bounds
MaxCount == 26
MaxCols == 3
PairMaxCount == 4
FairMaxCount == 3

\* --------------------------------------------------------------- constants
Unit == 1000
DarkenFactor == 72
DefaultColumns == 40
DefaultRowGap == 10 * Unit

\* ----------------------------------------------------------------- helpers
Max(a, b) == IF a >= b THEN a ELSE b

Min(a, b) == IF a <= b THEN a ELSE b

Abs(a) == IF a >= 0 THEN a ELSE -a

\* a * b of two fixed-point values whose product is exact in the model
Scale(n, step) == n * step

\* range(start, stop, s): is v still inside the range
InRange(v, stop, s) == IF s > 0 THEN v < stop ELSE v > stop

\* ------------------------------------------------------ square_ring_points
NewSquare(step) == [step |-> step, phase |-> "new", ring |-> 0, v |-> 0, pt |-> <<>>]

RECURSIVE SquareEnter(_, _, _)
\* square_ring_points with the left edge started at its top end
SquareEnter_LeftFromTop(g, ring, phase) ==
  LET d == Scale(ring, g.step) IN
  CASE phase = "top" ->
         IF InRange(-ring, ring + 1, 1)
         THEN [g EXCEPT !.phase = "top", !.ring = ring, !.v = -ring,
                        !.pt = <<Scale(-ring, g.step), -d>>]
         ELSE SquareEnter(g, ring, "right")
    [] phase = "right" ->
         IF InRange(-ring + 1, ring + 1, 1)
         THEN [g EXCEPT !.phase = "right", !.ring = ring, !.v = -ring + 1,
                        !.pt = <<d, Scale(-ring + 1, g.step)>>]
         ELSE SquareEnter(g, ring, "bottom")
    [] phase = "bottom" ->
         IF InRange(ring - 1, -ring - 1, -1)
         THEN [g EXCEPT !.phase = "bottom", !.ring = ring, !.v = ring - 1,
                        !.pt = <<Scale(ring - 1, g.step), d>>]
         ELSE SquareEnter(g, ring, "left")
    [] OTHER ->
         IF InRange(ring - 1, -ring, -1)
         THEN [g EXCEPT !.phase = "left", !.ring = ring, !.v = -ring + 1,
                        !.pt = <<-d, Scale(-ring + 1, g.step)>>]
         ELSE SquareEnter(g, ring + 1, "top")

\* square_ring_points with the bottom edge started on the bottom-right corner
SquareEnter_BottomCorner(g, ring, phase) ==
  LET d == Scale(ring, g.step) IN
  CASE phase = "top" ->
         IF InRange(-ring, ring + 1, 1)
         THEN [g EXCEPT !.phase = "top", !.ring = ring, !.v = -ring,
                        !.pt = <<Scale(-ring, g.step), -d>>]
         ELSE SquareEnter(g, ring, "right")
    [] phase = "right" ->
         IF InRange(-ring + 1, ring + 1, 1)
         THEN [g EXCEPT !.phase = "right", !.ring = ring, !.v = -ring + 1,
                        !.pt = <<d, Scale(-ring + 1, g.step)>>]
         ELSE SquareEnter(g, ring, "bottom")
    [] phase = "bottom" ->
         IF InRange(ring - 1, -ring - 1, -1)
         THEN [g EXCEPT !.phase = "bottom", !.ring = ring, !.v = ring,
                        !.pt = <<Scale(ring, g.step), d>>]
         ELSE SquareEnter(g, ring, "left")
    [] OTHER ->
         IF InRange(ring - 1, -ring, -1)
         THEN [g EXCEPT !.phase = "left", !.ring = ring, !.v = ring - 1,
                        !.pt = <<-d, Scale(ring - 1, g.step)>>]
         ELSE SquareEnter(g, ring + 1, "top")

\* enter the for loop `phase` of ring `ring`; an empty range falls through
SquareEnter(g, ring, phase) ==
  LET d == Scale(ring, g.step) IN
  CASE phase = "top" ->
         IF InRange(-ring, ring + 1, 1)
         THEN [g EXCEPT !.phase = "top", !.ring = ring, !.v = -ring,
                        !.pt = <<Scale(-ring, g.step), -d>>]
         ELSE SquareEnter(g, ring, "right")
    [] phase = "right" ->
         IF InRange(-ring + 1, ring + 1, 1)
         THEN [g EXCEPT !.phase = "right", !.ring = ring, !.v = -ring + 1,
                        !.pt = <<d, Scale(-ring + 1, g.step)>>]
         ELSE SquareEnter(g, ring, "bottom")
    [] phase = "bottom" ->
         IF InRange(ring - 1, -ring - 1, -1)
         THEN [g EXCEPT !.phase = "bottom", !.ring = ring, !.v = ring - 1,
                        !.pt = <<Scale(ring - 1, g.step), d>>]
         ELSE SquareEnter(g, ring, "left")
    [] OTHER ->
         IF InRange(ring - 1, -ring, -1)
         THEN [g EXCEPT !.phase = "left", !.ring = ring, !.v = ring - 1,
                        !.pt = <<-d, Scale(ring - 1, g.step)>>]
         ELSE SquareEnter(g, ring + 1, "top")

\* square_ring_points with the left edge run up to the top-left corner
SquareNext_LeftCorner(g) ==
  LET d == Scale(g.ring, g.step) IN
  CASE g.phase = "new" -> [g EXCEPT !.phase = "origin", !.pt = <<0, 0>>]
    [] g.phase = "origin" -> SquareEnter(g, 1, "top")
    [] g.phase = "top" ->
         IF InRange(g.v + 1, g.ring + 1, 1)
         THEN [g EXCEPT !.v = g.v + 1, !.pt = <<Scale(g.v + 1, g.step), -d>>]
         ELSE SquareEnter(g, g.ring, "right")
    [] g.phase = "right" ->
         IF InRange(g.v + 1, g.ring + 1, 1)
         THEN [g EXCEPT !.v = g.v + 1, !.pt = <<d, Scale(g.v + 1, g.step)>>]
         ELSE SquareEnter(g, g.ring, "bottom")
    [] g.phase = "bottom" ->
         IF InRange(g.v - 1, -g.ring - 1, -1)
         THEN [g EXCEPT !.v = g.v - 1, !.pt = <<Scale(g.v - 1, g.step), d>>]
         ELSE SquareEnter(g, g.ring, "left")
    [] OTHER ->
         IF InRange(g.v - 1, -g.ring - 1, -1)
         THEN [g EXCEPT !.v = g.v - 1, !.pt = <<-d, Scale(g.v - 1, g.step)>>]
         ELSE SquareEnter(g, g.ring + 1, "top")

\* one next() on the square ring generator
SquareNext(g) ==
  LET d == Scale(g.ring, g.step) IN
  CASE g.phase = "new" -> [g EXCEPT !.phase = "origin", !.pt = <<0, 0>>]
    [] g.phase = "origin" -> SquareEnter(g, 1, "top")
    [] g.phase = "top" ->
         IF InRange(g.v + 1, g.ring + 1, 1)
         THEN [g EXCEPT !.v = g.v + 1, !.pt = <<Scale(g.v + 1, g.step), -d>>]
         ELSE SquareEnter(g, g.ring, "right")
    [] g.phase = "right" ->
         IF InRange(g.v + 1, g.ring + 1, 1)
         THEN [g EXCEPT !.v = g.v + 1, !.pt = <<d, Scale(g.v + 1, g.step)>>]
         ELSE SquareEnter(g, g.ring, "bottom")
    [] g.phase = "bottom" ->
         IF InRange(g.v - 1, -g.ring - 1, -1)
         THEN [g EXCEPT !.v = g.v - 1, !.pt = <<Scale(g.v - 1, g.step), d>>]
         ELSE SquareEnter(g, g.ring, "left")
    [] OTHER ->
         IF InRange(g.v - 1, -g.ring, -1)
         THEN [g EXCEPT !.v = g.v - 1, !.pt = <<-d, Scale(g.v - 1, g.step)>>]
         ELSE SquareEnter(g, g.ring + 1, "top")

\* ------------------------------------------------------ circle_ring_points
\* cos of k * 7.5 degrees, k = 0..12, in millionths
CosTable == <<1000000, 991445, 965926, 923880, 866025, 793353, 707107,
              608761, 500000, 382683, 258819, 130526, 0>>

\* cos(2 pi k / 48) in millionths, any integer k
Cos48(k) ==
  LET m == k % 48
      f == IF m > 24 THEN 48 - m ELSE m
  IN IF f <= 12 THEN CosTable[f + 1] ELSE -CosTable[24 - f + 1]

\* sin(2 pi k / 48) = cos(2 pi (k - 12) / 48)
Sin48(k) == Cos48(k - 12)

\* round(radius * c / 10^6) for a fixed-point radius >= 0 and c in millionths,
\* the product taken in two halves to stay inside 32 bits
MulRound(radius, c) ==
  LET m == Abs(c)
      a == radius * (m \div 1000)
      b == radius * (m % 1000)
      q == a + (b \div 1000)
      frac == (q % 1000) * 1000 + (b % 1000)
      r == (q \div 1000) + (IF frac >= 500000 THEN 1 ELSE 0)
  IN IF c >= 0 THEN r ELSE -r

\* (round(radius * cos(theta), 3), round(radius * sin(theta), 3)) for
\* theta = 2 pi i / samples; the table resolves the samples that divide 48
CirclePoint(radius, i, samples) ==
  LET k == (i * 48) \div samples
  IN <<MulRound(radius, Cos48(k)), MulRound(radius, Sin48(k))>>

NewCircle(step) == [step |-> step, phase |-> "new", ring |-> 0, i |-> 0, pt |-> <<>>]

\* circle_ring_points with 8 samples on every ring
CircleNext_EightSamples(g) ==
  CASE g.phase = "new" -> [g EXCEPT !.phase = "origin", !.pt = <<0, 0>>]
    [] g.phase = "origin" ->
         [g EXCEPT !.phase = "ring", !.ring = 1, !.i = 0,
                   !.pt = CirclePoint(Scale(1, g.step), 0, 8)]
    [] OTHER ->
         IF InRange(g.i + 1, 8, 1)
         THEN [g EXCEPT !.i = g.i + 1,
                        !.pt = CirclePoint(Scale(g.ring, g.step), g.i + 1, 8)]
         ELSE [g EXCEPT !.ring = g.ring + 1, !.i = 0,
                        !.pt = CirclePoint(Scale(g.ring + 1, g.step), 0, 8)]

\* one next() on the circle ring generator
CircleNext(g) ==
  CASE g.phase = "new" -> [g EXCEPT !.phase = "origin", !.pt = <<0, 0>>]
    [] g.phase = "origin" ->
         [g EXCEPT !.phase = "ring", !.ring = 1, !.i = 0,
                   !.pt = CirclePoint(Scale(1, g.step), 0, Max(8 * 1, 8))]
    [] OTHER ->
         LET samples == Max(8 * g.ring, 8) IN
         IF InRange(g.i + 1, samples, 1)
         THEN [g EXCEPT !.i = g.i + 1,
                        !.pt = CirclePoint(Scale(g.ring, g.step), g.i + 1, samples)]
         ELSE [g EXCEPT !.ring = g.ring + 1, !.i = 0,
                        !.pt = CirclePoint(Scale(g.ring + 1, g.step), 0,
                                           Max(8 * (g.ring + 1), 8))]

\* ------------------------------------------------------------ snake_points
\* snake_points with the row gap left out of the row pitch
NewSnake_NoGap(step, columns, row_gap) ==
  [step |-> step, columns |-> Max(columns, 1), row_step |-> step,
   phase |-> "new", row |-> 0, col |-> 0, pt |-> <<>>]

NewSnake(step, columns, row_gap) ==
  [step |-> step, columns |-> Max(columns, 1), row_step |-> step + row_gap,
   phase |-> "new", row |-> 0, col |-> 0, pt |-> <<>>]

\* snake_points with every row started at column 0
SnakeEnter_NoTurn(g, row) ==
  [g EXCEPT !.phase = "row", !.row = row, !.col = 0,
            !.pt = <<Scale(0, g.step), Scale(row, g.row_step)>>]

\* start the for loop of row `row` (columns >= 1, so the range is not empty)
SnakeEnter(g, row) ==
  LET col == IF row % 2 = 0 THEN 0 ELSE g.columns - 1
  IN [g EXCEPT !.phase = "row", !.row = row, !.col = col,
               !.pt = <<Scale(col, g.step), Scale(row, g.row_step)>>]

\* one next() on the snake generator
SnakeNext(g) ==
  CASE g.phase = "new" -> SnakeEnter(g, 0)
    [] OTHER ->
         IF g.row % 2 = 0
         THEN IF InRange(g.col + 1, g.columns, 1)
              THEN [g EXCEPT !.col = g.col + 1,
                             !.pt = <<Scale(g.col + 1, g.step), Scale(g.row, g.row_step)>>]
              ELSE SnakeEnter(g, g.row + 1)
         ELSE IF InRange(g.col - 1, -1, -1)
              THEN [g EXCEPT !.col = g.col - 1,
                             !.pt = <<Scale(g.col - 1, g.step), Scale(g.row, g.row_step)>>]
              ELSE SnakeEnter(g, g.row + 1)

\* ----------------------------------------------------------- spiral_points
NewSpiral(step) ==
  [step |-> step, phase |-> "new", x |-> 0, y |-> 0, leg_len |-> 0, k |-> 0, pt |-> <<>>]

\* one move of the walk in the direction of leg `phase`
SpiralMove(g, phase, k) ==
  LET nx == CASE phase = "right" -> g.x + 1 [] phase = "left" -> g.x - 1 [] OTHER -> g.x
      ny == CASE phase = "up" -> g.y + 1 [] phase = "down" -> g.y - 1 [] OTHER -> g.y
  IN [g EXCEPT !.phase = phase, !.k = k, !.x = nx, !.y = ny,
               !.pt = <<Scale(nx, g.step), Scale(ny, g.step)>>]

\* the legs with the walk turned back after the up leg
SpiralAfter_TurnsBack(phase) ==
  CASE phase = "right" -> "up" [] phase = "up" -> "down"
    [] phase = "left" -> "down" [] OTHER -> "right"

\* the leg that follows `phase`, and the leg length it runs with
SpiralAfter(phase) ==
  CASE phase = "right" -> "up" [] phase = "up" -> "left"
    [] phase = "left" -> "down" [] OTHER -> "right"

\* spiral_points with leg_len grown only once per turn of the spiral
SpiralBump_OncePerTurn(phase) == IF phase = "down" THEN 1 ELSE 0

\* leg_len += 1 runs after the up loop and after the down loop
SpiralBump(phase) == IF phase \in {"up", "down"} THEN 1 ELSE 0

\* one next() on the spiral generator (leg_len >= 1, so no leg is empty)
SpiralNext(g) ==
  CASE g.phase = "new" -> [g EXCEPT !.phase = "origin", !.pt = <<0, 0>>]
    [] g.phase = "origin" -> SpiralMove([g EXCEPT !.leg_len = 1], "right", 0)
    [] OTHER ->
         IF InRange(g.k + 1, g.leg_len, 1)
         THEN SpiralMove(g, g.phase, g.k + 1)
         ELSE SpiralMove([g EXCEPT !.leg_len = g.leg_len + SpiralBump(g.phase)],
                         SpiralAfter(g.phase), 0)

\* ------------------------------------------------------------ color helpers
HexDigits == <<"0", "1", "2", "3", "4", "5", "6", "7",
               "8", "9", "a", "b", "c", "d", "e", "f">>

\* f"{n:02x}" for n in 0..255
Hex2(n) == <<HexDigits[(n \div 16) + 1], HexDigits[(n % 16) + 1]>>

\* the value of one hexadecimal digit
HexVal(c) == CHOOSE i \in 0..15 : HexDigits[i + 1] = c

\* int(s, 16) of a two digit string
ParseHex2(s) == 16 * HexVal(s[1]) + HexVal(s[2])

RECURSIVE LStripHash(_)
\* color.lstrip("#")
LStripHash(s) == IF Len(s) > 0 /\ Head(s) = "#" THEN LStripHash(Tail(s)) ELSE s

\* random.Random(seed): the generator state and the number of draws made.
\* The Mersenne Twister is stood in for by a small congruential generator:
\* what matters is that a draw is a function of the state alone.
NewRandom(s) == [state |-> s % 65537, n |-> 0]

\* rng.randint(0, 255)
RandInt(rng) ==
  LET s == (rng.state * 75 + 74) % 65537
  IN [rng |-> [state |-> s, n |-> rng.n + 1], val |-> s % 256]

\* random_hex_color(rng): three draws, left to right
RandomHexColor(rng) ==
  LET a == RandInt(rng)
      b == RandInt(a.rng)
      c == RandInt(b.rng)
  IN [rng |-> c.rng, color |-> <<"#">> \o Hex2(a.val) \o Hex2(b.val) \o Hex2(c.val)]

\* the channel rounded to the nearest integer instead of truncated
DarkenChannel_Rounds(ch, factor) == Max(0, Min(255, (ch * factor + 50) \div 100))

\* max(0, min(255, int(ch * factor))) with factor in hundredths; int() truncates
DarkenChannel(ch, factor) == Max(0, Min(255, (ch * factor) \div 100))

\* darken_hex(color, factor)
DarkenHex(color, factor) ==
  LET c == LStripHash(color)
      r == ParseHex2(SubSeq(c, 1, 2))
      g == ParseHex2(SubSeq(c, 3, 4))
      b == ParseHex2(SubSeq(c, 5, 6))
  IN <<"#">> \o Hex2(DarkenChannel(r, factor)) \o Hex2(DarkenChannel(g, factor))
            \o Hex2(DarkenChannel(b, factor))

\* ------------------------------------------------------------------- main
VARIABLES args, sigpipe_blocked, pc, status, rng, points, index, obj,
          sink, closed_after, stdout_closed, line, out, yielded,
          other, probe

\* `other` is a second, independent run of the program (another process)
\* and `probe` the argument and results of a helper applied on its own;
\* both are absent in the specification of the single run
vars == <<args, sigpipe_blocked, pc, status, rng, points, index, obj,
          sink, closed_after, stdout_closed, line, out, yielded,
          other, probe>>

\* an absent optional value, and a present one
None == <<>>

Some(v) == <<v>>

Counts == {-1, 0, 1, 2, 5, MaxCount}

Sizes == {-Unit, 0, Unit, 10 * Unit}

Starts == {<<0, 0>>, <<5 * Unit, -3 * Unit>>}

Seeds == {None, Some(1), Some(2)}

\* what an unseeded random.Random() may be seeded with by the system
Entropy == {7, 13}

\* parse_args(): the namespace; columns and row-gap vary for the snake only
ParseArgs ==
  { a \in [count : Counts, size : Sizes, start : Starts,
           pattern : {"snake", "square", "ring", "spiral"},
           columns : (0..MaxCols) \cup {DefaultColumns},
           row_gap : {0, DefaultRowGap}, seed : Seeds] :
      a.pattern # "snake" => (a.columns = DefaultColumns /\ a.row_gap = DefaultRowGap) }

\* the pattern dispatch of main
NewPoints(a) ==
  CASE a.pattern = "snake" -> NewSnake(a.size, a.columns, a.row_gap)
    [] a.pattern = "square" -> NewSquare(a.size)
    [] a.pattern = "spiral" -> NewSpiral(a.size)
    [] OTHER -> NewCircle(a.size)

\* next(points)
PointsNext(a, g) ==
  CASE a.pattern = "snake" -> SnakeNext(g)
    [] a.pattern = "square" -> SquareNext(g)
    [] a.pattern = "spiral" -> SpiralNext(g)
    [] OTHER -> CircleNext(g)

\* the two kinds the wrong way round
Kind_Swapped(i) == IF i % 2 # 0 THEN "rectangle" ELSE "ellipse"

\* "ellipse" if index % 2 else "rectangle"
Kind(i) == IF i % 2 # 0 THEN "ellipse" ELSE "rectangle"

\* the record moved off its pattern offset by a value taken from its color
MakeObj_Jitter(a, i, pt, fill, border) ==
  [type |-> "object", kind |-> Kind(i),
   x |-> a.start[1] + pt[1] + HexVal(fill[2]), y |-> a.start[2] + pt[2],
   width |-> a.size, height |-> a.size, rotation |-> 0, z_index |-> i,
   props |-> [fill |-> fill, stroke |-> border, strokeWidth |-> 1]]

\* the record placed at the pattern offset alone, the start offset dropped
MakeObj_NoStart(a, i, pt, fill, border) ==
  [type |-> "object", kind |-> Kind(i),
   x |-> pt[1], y |-> pt[2],
   width |-> a.size, height |-> a.size, rotation |-> 0, z_index |-> i,
   props |-> [fill |-> fill, stroke |-> border, strokeWidth |-> 1]]

\* the record with z_index counted from 1
MakeObj_FromOne(a, i, pt, fill, border) ==
  [type |-> "object", kind |-> Kind(i),
   x |-> a.start[1] + pt[1], y |-> a.start[2] + pt[2],
   width |-> a.size, height |-> a.size, rotation |-> 0, z_index |-> i + 1,
   props |-> [fill |-> fill, stroke |-> border, strokeWidth |-> 1]]

\* the record assembled in the loop body
MakeObj(a, i, pt, fill, border) ==
  [type |-> "object", kind |-> Kind(i),
   x |-> a.start[1] + pt[1], y |-> a.start[2] + pt[2],
   width |-> a.size, height |-> a.size, rotation |-> 0, z_index |-> i,
   props |-> [fill |-> fill, stroke |-> border, strokeWidth |-> 1]]

\* the process as main is entered, its arguments one of `argset`
Start(argset) ==
  /\ args \in argset
  /\ sigpipe_blocked \in BOOLEAN
  /\ pc = "start"
  /\ status = "running"
  /\ rng = None
  /\ points = None
  /\ index = 0
  /\ obj = None
  /\ sink = "open"
  /\ closed_after = None
  /\ stdout_closed = FALSE
  /\ line = None
  /\ out = <<>>
  /\ yielded = <<>>

Init ==
  /\ Start(ParseArgs)
  /\ other = None
  /\ probe = None

\* if args.count <= 0: return 0
ReturnEarly ==
  /\ pc = "start"
  /\ args.count <= 0
  /\ pc' = "returned"
  /\ status' = "0"
  /\ UNCHANGED <<other, probe, args, sigpipe_blocked, rng, points, index, obj, sink,
                 closed_after, stdout_closed, line, out, yielded>>

\* if args.size <= 0: raise SystemExit("--size must be > 0")
RejectSize ==
  /\ pc = "start"
  /\ ~(args.count <= 0)
  /\ args.size <= 0
  /\ pc' = "raised"
  /\ status' = "1"
  /\ UNCHANGED <<other, probe, args, sigpipe_blocked, rng, points, index, obj, sink,
                 closed_after, stdout_closed, line, out, yielded>>

\* the random source seeded by the system whatever --seed says
Setup_IgnoreSeed ==
  /\ pc = "start"
  /\ ~(args.count <= 0)
  /\ ~(args.size <= 0)
  /\ \E e \in Entropy : rng' = Some(NewRandom(e))
  /\ points' = Some(NewPoints(args))
  /\ index' = 0
  /\ pc' = "loop"
  /\ UNCHANGED <<other, probe, args, sigpipe_blocked, status, obj, sink, closed_after,
                 stdout_closed, line, out, yielded>>

\* rng = random.Random(args.seed); points = <the chosen generator>
Setup ==
  /\ pc = "start"
  /\ ~(args.count <= 0)
  /\ ~(args.size <= 0)
  /\ \E e \in Entropy :
       rng' = Some(NewRandom(IF args.seed = None THEN e ELSE args.seed[1]))
  /\ points' = Some(NewPoints(args))
  /\ index' = 0
  /\ pc' = "loop"
  /\ UNCHANGED <<other, probe, args, sigpipe_blocked, status, obj, sink, closed_after,
                 stdout_closed, line, out, yielded>>

\* the loop body with the generator advanced twice in one pass
Iterate_SkipsPoint ==
  /\ pc = "loop"
  /\ index < args.count
  /\ LET g == PointsNext(args, PointsNext(args, points[1]))
         f == RandomHexColor(rng[1])
         border == DarkenHex(f.color, DarkenFactor)
     IN /\ points' = Some(g)
        /\ rng' = Some(f.rng)
        /\ yielded' = Append(yielded, g)
        /\ obj' = Some(MakeObj(args, index, g.pt, f.color, border))
  /\ pc' = "write_obj"
  /\ UNCHANGED <<other, probe, args, sigpipe_blocked, status, index, sink, closed_after,
                 stdout_closed, line, out>>

\* the loop body entered once more after the last index of the range
Iterate_OneMore ==
  /\ pc = "loop"
  /\ index <= args.count
  /\ LET g == PointsNext(args, points[1])
         f == RandomHexColor(rng[1])
         border == DarkenHex(f.color, DarkenFactor)
     IN /\ points' = Some(g)
        /\ rng' = Some(f.rng)
        /\ yielded' = Append(yielded, g)
        /\ obj' = Some(MakeObj(args, index, g.pt, f.color, border))
  /\ pc' = "write_obj"
  /\ UNCHANGED <<other, probe, args, sigpipe_blocked, status, index, sink, closed_after,
                 stdout_closed, line, out>>

\* one pass of the loop body up to the try: next(points), the colors, obj
Iterate ==
  /\ pc = "loop"
  /\ index < args.count
  /\ LET g == PointsNext(args, points[1])
         f == RandomHexColor(rng[1])
         border == DarkenHex(f.color, DarkenFactor)
     IN /\ points' = Some(g)
        /\ rng' = Some(f.rng)
        /\ yielded' = Append(yielded, g)
        /\ obj' = Some(MakeObj(args, index, g.pt, f.color, border))
  /\ pc' = "write_obj"
  /\ UNCHANGED <<other, probe, args, sigpipe_blocked, status, index, sink, closed_after,
                 stdout_closed, line, out>>

\* range(args.count) is exhausted: return 0
ReturnDone ==
  /\ pc = "loop"
  /\ ~(index < args.count)
  /\ pc' = "returned"
  /\ status' = "0"
  /\ UNCHANGED <<other, probe, args, sigpipe_blocked, rng, points, index, obj, sink,
                 closed_after, stdout_closed, line, out, yielded>>

\* a failed write with every OSError handled as BrokenPipeError is
WriteFails_CatchAll ==
  /\ sink # "open"
  /\ IF sink = "closed" /\ ~sigpipe_blocked
     THEN pc' = "killed" /\ status' = "SIGPIPE"
     ELSE pc' = "except" /\ status' = status
  /\ UNCHANGED <<other, probe, args, sigpipe_blocked, rng, points, index, obj, sink,
                 closed_after, stdout_closed, line, out, yielded>>

\* a write on a sink that does not take it: the pipe's reader is gone
\* (SIGPIPE has its default action, so the process is killed unless the
\* signal is blocked in the inherited mask, and then the write raises
\* BrokenPipeError), or some other OSError, which nothing catches
WriteFails ==
  /\ sink # "open"
  /\ IF sink = "closed"
     THEN IF sigpipe_blocked
          THEN pc' = "except" /\ status' = status
          ELSE pc' = "killed" /\ status' = "SIGPIPE"
     ELSE pc' = "raised" /\ status' = "1"
  /\ UNCHANGED <<other, probe, args, sigpipe_blocked, rng, points, index, obj, sink,
                 closed_after, stdout_closed, line, out, yielded>>

\* sys.stdout.write(json.dumps(obj, separators=(",", ":")))
WriteObj ==
  /\ pc = "write_obj"
  /\ \/ /\ sink = "open"
        /\ line' = obj
        /\ pc' = "write_nl"
        /\ UNCHANGED <<other, probe, args, sigpipe_blocked, status, rng, points, index, obj,
                       sink, closed_after, stdout_closed, out, yielded>>
     \/ WriteFails

\* sys.stdout.write("\n"), and on to the next index of the range
WriteNewline ==
  /\ pc = "write_nl"
  /\ \/ /\ sink = "open"
        /\ out' = Append(out, line[1])
        /\ line' = None
        /\ index' = index + 1
        /\ pc' = "loop"
        /\ UNCHANGED <<other, probe, args, sigpipe_blocked, status, rng, points, obj, sink,
                       closed_after, stdout_closed, yielded>>
     \/ WriteFails

\* the handler swallowing the error and going on with the loop
CloseStdout_Continue ==
  /\ pc = "except"
  /\ stdout_closed' = TRUE
  /\ index' = index + 1
  /\ pc' = "loop"
  /\ UNCHANGED <<other, probe, args, sigpipe_blocked, status, rng, points, obj, sink,
                 closed_after, line, out, yielded>>

\* except BrokenPipeError: try: sys.stdout.close()
CloseStdout ==
  /\ pc = "except"
  /\ stdout_closed' = TRUE
  /\ pc' = "finally"
  /\ UNCHANGED <<other, probe, args, sigpipe_blocked, status, rng, points, index, obj, sink,
                 closed_after, line, out, yielded>>

\* finally: os._exit(0)
OsExit ==
  /\ pc = "finally"
  /\ pc' = "exited"
  /\ status' = "0"
  /\ UNCHANGED <<other, probe, args, sigpipe_blocked, rng, points, index, obj, sink,
                 closed_after, stdout_closed, line, out, yielded>>

Live == pc \in {"start", "loop", "write_obj", "write_nl"}

\* the consumer closes its end of the pipe, having taken the records
\* written so far (the sink is synchronous: nothing is buffered ahead)
ConsumerClose ==
  /\ Live
  /\ sink = "open"
  /\ sink' = "closed"
  /\ closed_after' = Some(Len(out))
  /\ UNCHANGED <<other, probe, args, sigpipe_blocked, pc, status, rng, points, index, obj,
                 stdout_closed, line, out, yielded>>

\* the sink starts to fail for another reason (disk full, I/O error)
SinkBreaks ==
  /\ Live
  /\ sink = "open"
  /\ sink' = "failed"
  /\ UNCHANGED <<other, probe, args, sigpipe_blocked, pc, status, rng, points, index, obj,
                 closed_after, stdout_closed, line, out, yielded>>

Next ==
  \/ ReturnEarly
  \/ RejectSize
  \/ Setup
  \/ Iterate
  \/ ReturnDone
  \/ WriteObj
  \/ WriteNewline
  \/ CloseStdout
  \/ OsExit
  \/ ConsumerClose
  \/ SinkBreaks

Spec == Init /\ [][Next]_vars

\* the steps of the program itself; the others are steps of its environment
ProgramStep ==
  \/ ReturnEarly
  \/ RejectSize
  \/ Setup
  \/ Iterate
  \/ ReturnDone
  \/ WriteObj
  \/ WriteNewline
  \/ CloseStdout
  \/ OsExit

\* the arguments of the runs that are followed to their end
FairArgs ==
  [count : {-1, 0, 1, FairMaxCount}, size : {0, Unit}, start : {<<0, 0>>},
   pattern : {"snake", "square", "ring", "spiral"}, columns : {2},
   row_gap : {DefaultRowGap}, seed : {Some(1)}]

InitFair ==
  /\ Start(FairArgs)
  /\ other = None
  /\ probe = None

\* a single synchronous thread: while the process lives and every call it
\* makes returns, its next statement is executed
FairSpec == InitFair /\ [][Next]_vars /\ WF_vars(ProgramStep)

\* ------------------------------------------------------- two runs side by side
\* the variables of the run
run == <<args, sigpipe_blocked, pc, status, rng, points, index, obj,
         sink, closed_after, stdout_closed, line, out, yielded>>

\* the arguments of the runs that are paired with a second run
PairArgs ==
  [count : {0, 2, PairMaxCount}, size : {0, 10 * Unit}, start : {<<5 * Unit, -3 * Unit>>},
   pattern : {"snake", "square", "ring", "spiral"}, columns : {2},
   row_gap : {DefaultRowGap}, seed : Seeds]

\* a second process as its main is entered; its sink takes every write
NewRun(a) == [args |-> a, pc |-> "start", rng |-> None, points |-> None,
              index |-> 0, out |-> <<>>]

\* the second run has the arguments of the first but for the seed and the count
InitPair ==
  /\ Start(PairArgs)
  /\ \E s \in Seeds, c \in {2, PairMaxCount} :
       other = Some(NewRun([args EXCEPT !.seed = s, !.count = c]))
  /\ probe = None

\* main of the second run up to the loop: the two checks, rng and points
OtherStart ==
  /\ other # None
  /\ other[1].pc = "start"
  /\ LET o == other[1] IN
     IF o.args.count <= 0 THEN other' = Some([o EXCEPT !.pc = "returned"])
     ELSE IF o.args.size <= 0 THEN other' = Some([o EXCEPT !.pc = "raised"])
     ELSE \E e \in Entropy :
            other' = Some([o EXCEPT
              !.rng = Some(NewRandom(IF o.args.seed = None THEN e ELSE o.args.seed[1])),
              !.points = Some(NewPoints(o.args)),
              !.pc = "loop"])
  /\ UNCHANGED <<run, probe>>

\* one pass of the loop of the second run, both writes taken by its sink
OtherEmit ==
  /\ other # None
  /\ other[1].pc = "loop"
  /\ other[1].index < other[1].args.count
  /\ LET o == other[1]
         g == PointsNext(o.args, o.points[1])
         f == RandomHexColor(o.rng[1])
         border == DarkenHex(f.color, DarkenFactor)
     IN other' = Some([o EXCEPT
          !.points = Some(g),
          !.rng = Some(f.rng),
          !.out = Append(o.out, MakeObj(o.args, o.index, g.pt, f.color, border)),
          !.index = o.index + 1])
  /\ UNCHANGED <<run, probe>>

\* the range of the second run is exhausted: return 0
OtherReturn ==
  /\ other # None
  /\ other[1].pc = "loop"
  /\ ~(other[1].index < other[1].args.count)
  /\ other' = Some([other[1] EXCEPT !.pc = "returned"])
  /\ UNCHANGED <<run, probe>>

NextPair ==
  \/ Next
  \/ OtherStart
  \/ OtherEmit
  \/ OtherReturn

SpecPair == InitPair /\ [][NextPair]_vars

\* ------------------------------------------------------ darken_hex on its own
\* f"#{r:02x}{g:02x}{b:02x}"
HexColor(r, g, b) == <<"#">> \o Hex2(r) \o Hex2(g) \o Hex2(b)

\* the colors darken_hex is applied to: every value of each channel, beside
\* low, middle and high values of the two others
ProbeColors ==
  LET edge == {0, 100, 255} IN
  UNION { {HexColor(v, e[1], e[2]), HexColor(e[1], v, e[2]), HexColor(e[1], e[2], v)} :
            v \in 0..255, e \in edge \X edge }

\* a run that is not started, next to the helper under test
IdleArgs == [count |-> 0, size |-> Unit, start |-> <<0, 0>>, pattern |-> "snake",
             columns |-> DefaultColumns, row_gap |-> DefaultRowGap, seed |-> None]

InitDarken ==
  /\ Start({IdleArgs})
  /\ sigpipe_blocked = FALSE
  /\ other = None
  /\ \E c \in ProbeColors : probe = Some([color |-> c, once |-> None, twice |-> None])

\* border = darken_hex(fill, 0.72)
DarkenOnce ==
  /\ probe # None
  /\ probe[1].once = None
  /\ probe' = Some([probe[1] EXCEPT !.once = DarkenHex(probe[1].color, DarkenFactor)])
  /\ UNCHANGED <<run, other>>

\* darken_hex applied to its own result
DarkenAgain ==
  /\ probe # None
  /\ probe[1].once # None
  /\ probe[1].twice = None
  /\ probe' = Some([probe[1] EXCEPT !.twice = DarkenHex(probe[1].once, DarkenFactor)])
  /\ UNCHANGED <<run, other>>

NextDarken ==
  \/ DarkenOnce
  \/ DarkenAgain

SpecDarken == InitDarken /\ [][NextDarken]_vars

\* ---------------------------------------------------------------- states
\* the run is over: main returned, an exception left it, os._exit ran, or
\* the process was killed by a signal
Terminal == pc \in {"returned", "raised", "exited", "killed"}

\* the states of the emitter
Running == pc \in {"loop", "write_obj", "write_nl"}

Draining == pc \in {"except", "finally"}

\* a write has failed because the consumer has closed the sink
ClosedWriteFailed == pc \in {"except", "finally", "exited", "killed"}

\* the positions, indices and kinds of the records written
Positions == [i \in 1..Len(out) |-> <<out[i].x, out[i].y>>]

ZIndices == [i \in 1..Len(out) |-> out[i].z_index]

Kinds == [i \in 1..Len(out) |-> out[i].kind]

\* ------------------------------------------------------------------- C1
\* C1: the z_index of the i-th record written is i (from 0), never more than
\* max(count, 0) records are written, and with size > 0 and a sink that took
\* every write the run returns 0 with exactly max(count, 0) records.
C1_ExactCount ==
  /\ \A i \in 1..Len(out) : out[i].z_index = i - 1
  /\ Len(out) <= Max(args.count, 0)
  /\ (Terminal /\ args.size > 0 /\ sink = "open")
       => (pc = "returned" /\ status = "0" /\ Len(out) = Max(args.count, 0))
  /\ (pc = "returned" /\ args.size > 0) => Len(out) = Max(args.count, 0)

C1_Witness ==
  /\ pc = "returned" /\ sink = "open" /\ args.size > 0
  /\ args.count = 5 /\ ZIndices = <<0, 1, 2, 3, 4>>

C3_ClosedSinkExitsZero ==
  (ClosedWriteFailed /\ Terminal) => (pc = "exited" /\ status = "0")

\* ------------------------------------------------------------------- C4
\* C4: with size <= 0 the run ends with a usage error (non-zero status) for
\* every count, before a generator is built and with no record written.
C4_SizeRejected ==
  (Terminal /\ args.size <= 0)
    => (pc = "raised" /\ status = "1" /\ points = None /\ out = <<>> /\ line = None)

\* ------------------------------------------------------------------- C5
\* C5: a write that fails for another reason than a closed consumer ends the
\* run at once with a non-zero status; the output is only ever appended to,
\* and nothing is written once the failure was raised.
C5_OtherFailureFatal ==
  /\ [][(pc \in {"write_obj", "write_nl"} /\ sink = "failed")
          => (pc' = "raised" /\ status' = "1" /\ out' = out /\ line' = line)]_vars
  /\ [][pc = "raised" => UNCHANGED <<pc, status, out, line>>]_vars
  /\ [][Len(out') >= Len(out) /\ SubSeq(out', 1, Len(out)) = out]_vars

C5_Witness ==
  /\ pc = "raised" /\ status = "1" /\ sink = "failed"
  /\ Len(out) = 2 /\ args.count = 5

\* ------------------------------------------------------------------- C6
\* C6: every record has kind "rectangle" when its index is even and
\* "ellipse" when it is odd, the first one being a rectangle.
C6_KindParity ==
  /\ \A i \in 1..Len(out) :
       out[i].kind = (IF out[i].z_index % 2 = 0 THEN "rectangle" ELSE "ellipse")
  /\ Len(out) >= 1 => (out[1].z_index = 0 /\ out[1].kind = "rectangle")
  /\ obj # None =>
       obj[1].kind = (IF obj[1].z_index % 2 = 0 THEN "rectangle" ELSE "ellipse")

C6_Witness ==
  /\ args.pattern = "spiral" /\ args.seed = Some(2) /\ args.start # <<0, 0>>
  /\ Len(out) = 5 /\ Kinds = <<"rectangle", "ellipse", "rectangle", "ellipse", "rectangle">>

\* ------------------------------------------------------------------- C7
\* the yields made while the generator's ring variable was r (ring 0 is the
\* yield before the loop)
RingYields(r) == {i \in 1..Len(yielded) : yielded[i].ring = r}

\* ring r is complete once the generator has gone on to a later ring
RingComplete(r) == \E i \in 1..Len(yielded) : yielded[i].ring > r

\* how many yields of ring r are the point p
TimesInRing(r, p) == Cardinality({i \in RingYields(r) : yielded[i].pt = p})

Corners(d) == {<<-d, -d>>, <<d, -d>>, <<d, d>>, <<-d, d>>}

\* C7: the square ring generator yields one point, (0,0), for ring 0 and
\* 8r points for every ring r >= 1, among them each corner of the ring once.
C7_SquareRingSize ==
  args.pattern = "square" =>
    /\ Len(yielded) >= 1 =>
         (RingYields(0) = {1} /\ yielded[1].pt = <<0, 0>>)
    /\ \A r \in 1..Len(yielded) :
         /\ Cardinality(RingYields(r)) <= 8 * r
         /\ RingComplete(r) => Cardinality(RingYields(r)) = 8 * r
         /\ \A c \in Corners(r * args.size) :
              /\ TimesInRing(r, c) <= 1
              /\ RingComplete(r) => TimesInRing(r, c) = 1

C7_Witness ==
  /\ args.pattern = "square" /\ args.size = 10 * Unit
  /\ RingComplete(2) /\ Cardinality(RingYields(2)) = 16
  /\ Cardinality(RingYields(1)) = 8

\* ------------------------------------------------------------------- C8
RECURSIVE WalkFrom(_, _, _, _, _)
\* the lattice point n moves further along the walk, from (x, y) with
\* `done` moves made of leg `leg`; leg j runs right, up, left, down for
\* j % 4 = 0, 1, 2, 3 and is (j \div 2) + 1 long
WalkFrom(n, leg, done, x, y) ==
  IF n = 0 THEN <<x, y>>
  ELSE IF done = (leg \div 2) + 1 THEN WalkFrom(n, leg + 1, 0, x, y)
  ELSE LET dir == leg % 4
           dx == CASE dir = 0 -> 1 [] dir = 2 -> -1 [] OTHER -> 0
           dy == CASE dir = 1 -> 1 [] dir = 3 -> -1 [] OTHER -> 0
       IN WalkFrom(n - 1, leg, done + 1, x + dx, y + dy)

Walk(n) == WalkFrom(n, 0, 0, 0, 0)

WalkStart == << <<0, 0>>, <<1, 0>>, <<1, 1>>, <<0, 1>>, <<-1, 1>>, <<-1, 0>>,
               <<-1, -1>>, <<0, -1>>, <<1, -1>>, <<2, -1>> >>

\* C8: the n-th point of the spiral generator is step times the n-th point
\* of the lattice walk (0,0),(1,0),(1,1),(0,1),(-1,1),... whose legs go
\* right, up, left, down and grow by one after every second leg.
C8_SpiralWalk ==
  args.pattern = "spiral" =>
    \A i \in 1..Len(yielded) :
      /\ yielded[i].pt = <<Walk(i - 1)[1] * args.size, Walk(i - 1)[2] * args.size>>
      /\ i <= Len(WalkStart) =>
           yielded[i].pt = <<WalkStart[i][1] * args.size, WalkStart[i][2] * args.size>>

C8_Witness ==
  /\ args.pattern = "spiral" /\ args.size = 10 * Unit /\ Len(yielded) = MaxCount
  /\ yielded[10].pt = <<20 * Unit, -10 * Unit>>

\* ------------------------------------------------------------------- C9
\* C9: with columns >= 1 the snake generator yields row after row, each row
\* of exactly `columns` points at y = row * (size + row_gap) and
\* x = column * size, the columns ascending in even rows and descending in
\* odd rows.
C9_SnakeRows ==
  (args.pattern = "snake" /\ args.columns >= 1) =>
    \A i \in 1..Len(yielded) :
      LET k == (i - 1) \div args.columns
          p == (i - 1) % args.columns
          col == IF k % 2 = 0 THEN p ELSE args.columns - 1 - p
      IN yielded[i].pt = <<col * args.size, k * (args.size + args.row_gap)>>

C9_Witness ==
  /\ args.pattern = "snake" /\ args.columns = 3 /\ args.row_gap = DefaultRowGap
  /\ args.size = Unit /\ Len(yielded) >= 7
  /\ yielded[4].pt = <<2 * Unit, 11 * Unit>> /\ yielded[7].pt = <<0, 22 * Unit>>

\* ------------------------------------------------------------------ C10
\* count=5, pattern=snake, size=10, columns=2, the rest at its default
SnakeExample ==
  /\ args.count = 5 /\ args.pattern = "snake" /\ args.size = 10 * Unit
  /\ args.columns = 2 /\ args.row_gap = DefaultRowGap /\ args.start = <<0, 0>>

\* C10 as stated: the example run writes its records at
\* (0,0),(10,0),(10,10),(0,10),(0,20).
C10_AsStated ==
  (SnakeExample /\ pc = "returned") =>
    /\ Positions = << <<0, 0>>, <<10 * Unit, 0>>, <<10 * Unit, 10 * Unit>>,
                     <<0, 10 * Unit>>, <<0, 20 * Unit>> >>
    /\ ZIndices = <<0, 1, 2, 3, 4>>
    /\ Kinds = <<"rectangle", "ellipse", "rectangle", "ellipse", "rectangle">>

\* C10 (amended): the example run writes its records at
\* (0,0),(10,0),(10,20),(0,20),(0,40), the row pitch being size + row-gap =
\* 20, with z_index 0..4 and kinds rectangle, ellipse, rectangle, ellipse,
\* rectangle.
C10_SnakeExample ==
  (SnakeExample /\ pc = "returned") =>
    /\ Positions = << <<0, 0>>, <<10 * Unit, 0>>, <<10 * Unit, 20 * Unit>>,
                     <<0, 20 * Unit>>, <<0, 40 * Unit>> >>
    /\ ZIndices = <<0, 1, 2, 3, 4>>
    /\ Kinds = <<"rectangle", "ellipse", "rectangle", "ellipse", "rectangle">>

C10_Witness == SnakeExample /\ pc = "returned" /\ Len(out) = 5

\* ------------------------------------------------------------------ C11
\* C11: for the spiral, square and ring patterns the record of index 0 lies
\* at exactly (start-x, start-y), and a run with count = 1 that returns has
\* written that single record.
C11_FirstAtStart ==
  args.pattern \in {"spiral", "square", "ring"} =>
    /\ Len(out) >= 1 =>
         (out[1].z_index = 0 /\ <<out[1].x, out[1].y>> = args.start)
    /\ line # None /\ line[1].z_index = 0 => <<line[1].x, line[1].y>> = args.start
    /\ (args.count = 1 /\ args.size > 0 /\ pc = "returned") =>
         Positions = <<args.start>>

C11_Witness ==
  /\ args.pattern = "ring" /\ args.count = 1 /\ pc = "returned"
  /\ args.start = <<5 * Unit, -3 * Unit>> /\ args.size = 10 * Unit
  /\ Positions = << <<5 * Unit, -3 * Unit>> >>

\* ------------------------------------------------------------ C12, C13
\* the (fill, stroke) pairs, in order, of a sequence of records
ColorsOf(recs) == [i \in 1..Len(recs) |-> <<recs[i].props.fill, recs[i].props.stroke>>]

\* the position, kind and z_index, in order, of a sequence of records
GeometryOf(recs) ==
  [i \in 1..Len(recs) |-> <<recs[i].x, recs[i].y, recs[i].kind, recs[i].z_index>>]

\* two sequences agree as far as both go
AgreeSoFar(s, t) == \A i \in 1..Min(Len(s), Len(t)) : s[i] = t[i]

BothReturned == pc = "returned" /\ other[1].pc = "returned"

\* C12: two runs with the same configuration and the same seed write the
\* same (fill, stroke) pairs record by record, and a step of one run leaves
\* the random source of the other as it is.
C12_SeededColorsAgree ==
  /\ [](( other[1].args = args /\ args.seed # None) =>
          /\ AgreeSoFar(ColorsOf(out), ColorsOf(other[1].out))
          /\ BothReturned => ColorsOf(out) = ColorsOf(other[1].out))
  /\ [][(other' # other => rng' = rng) /\ (rng' # rng => other' = other)]_vars

C12_Witness ==
  /\ other[1].args = args /\ args.seed = Some(1) /\ args.count = PairMaxCount
  /\ args.size > 0 /\ BothReturned
  /\ Len(out) = PairMaxCount /\ Len(other[1].out) = PairMaxCount

\* C13: two runs whose configurations differ in nothing but the seed (given
\* or absent) write the same positions, kinds and z_index values.
C13_GeometryIgnoresSeed ==
  other[1].args = [args EXCEPT !.seed = other[1].args.seed] =>
    /\ AgreeSoFar(GeometryOf(out), GeometryOf(other[1].out))
    /\ BothReturned => GeometryOf(out) = GeometryOf(other[1].out)

C13_Witness ==
  /\ other[1].args = [args EXCEPT !.seed = Some(2)] /\ args.seed = None
  /\ args.pattern = "ring" /\ args.count = PairMaxCount /\ args.size > 0
  /\ BothReturned /\ Len(out) = PairMaxCount
  /\ ColorsOf(out) # ColorsOf(other[1].out)

\* ------------------------------------------------------------------ C14
\* the three channels of a "#rrggbb" color
Channels(c) == <<ParseHex2(SubSeq(c, 2, 3)), ParseHex2(SubSeq(c, 4, 5)),
                 ParseHex2(SubSeq(c, 6, 7))>>

\* d is c darkened: a well-formed color whose every channel is the product
\* with 0.72 cut to an integer, inside 0..255 and not above the channel of c
DarkenedFrom(d, c) ==
  /\ Len(d) = 7 /\ d[1] = "#"
  /\ \A k \in 1..3 :
       /\ Channels(d)[k] \in 0..255
       /\ Channels(d)[k] <= Channels(c)[k]
       /\ 100 * Channels(d)[k] <= DarkenFactor * Channels(c)[k]
       /\ DarkenFactor * Channels(c)[k] < 100 * (Channels(d)[k] + 1)

\* C14: every channel of darken(c, 0.72) is the truncated product, at most
\* the channel of c, and darkening the result again lowers or keeps every
\* channel once more.
C14_DarkenNeverBrightens ==
  probe # None =>
    /\ probe[1].once # None => DarkenedFrom(probe[1].once, probe[1].color)
    /\ probe[1].twice # None => DarkenedFrom(probe[1].twice, probe[1].once)

C14_Witness ==
  /\ probe # None /\ probe[1].twice # None
  /\ Channels(probe[1].color) = <<255, 100, 0>>
  /\ Channels(probe[1].once) = <<183, 72, 0>>
  /\ Channels(probe[1].twice) = <<131, 51, 0>>

\* ------------------------------------------------------------------ C15
\* p is at distance radius from the origin up to the rounding of both of
\* its coordinates to thousandths: the distance is off by at most
\* sqrt(2)/2 thousandths, so x^2 + y^2 is off radius^2 by at most
\* 1.415 * radius + 0.5
OnCircle(p, radius) ==
  1000 * Abs(p[1] * p[1] + p[2] * p[2] - radius * radius) <= 1415 * radius + 500

\* C15: the circle ring generator yields (0,0) first and then, ring after
\* ring, max(8r, 8) points of ring r, each at distance r * step from the
\* origin within the rounding to 3 decimal places.
C15_CircleRing ==
  args.pattern = "ring" =>
    /\ Len(yielded) >= 1 =>
         (RingYields(0) = {1} /\ yielded[1].pt = <<0, 0>>)
    /\ \A i, j \in 1..Len(yielded) : i < j => yielded[i].ring <= yielded[j].ring
    /\ \A r \in 1..Len(yielded) :
         /\ Cardinality(RingYields(r)) <= Max(8 * r, 8)
         /\ RingComplete(r) => Cardinality(RingYields(r)) = Max(8 * r, 8)
         /\ \A i \in RingYields(r) : OnCircle(yielded[i].pt, r * args.size)

C15_Witness ==
  /\ args.pattern = "ring" /\ args.size = 10 * Unit
  /\ RingComplete(2) /\ Cardinality(RingYields(2)) = 16
  /\ yielded[3].pt = <<7071, 7071>> /\ yielded[11].pt = <<18478, 7654>>

\* ------------------------------------------------------------------ C16
\* the ring that holds the n-th point after the origin (n from 0): ring r
\* holds the points 4r(r-1) .. 4r(r+1)-1
RingOf(n) == CHOOSE r \in 1..(n + 1) : 4 * r * (r - 1) <= n /\ n < 4 * r * (r + 1)

\* the j-th lattice point (j from 0) of ring r: the top edge left to right
\* (2r+1 points), the right edge downwards from below the top-right corner
\* (2r points), the bottom edge leftwards from x = r-1 to x = -r (2r points),
\* the left edge upwards from y = r-1 to y = -(r-1) (2r-1 points)
EdgePoint(r, j) ==
  IF j < 2 * r + 1 THEN <<-r + j, -r>>
  ELSE IF j < 4 * r + 1 THEN <<r, -r + 1 + (j - (2 * r + 1))>>
  ELSE IF j < 6 * r + 1 THEN <<r - 1 - (j - (4 * r + 1)), r>>
  ELSE <<-r, r - 1 - (j - (6 * r + 1))>>

\* C16: within every ring r >= 1 the square ring generator yields the top
\* edge, the right edge, the bottom edge and the left edge in that order and
\* those directions, and ring r+1 starts only when ring r is complete.
C16_SquareRingOrder ==
  args.pattern = "square" =>
    \A i \in 2..Len(yielded) :
      LET n == i - 2
          r == RingOf(n)
          e == EdgePoint(r, n - 4 * r * (r - 1))
      IN /\ yielded[i].ring = r
         /\ yielded[i].pt = <<e[1] * args.size, e[2] * args.size>>

C16_Witness ==
  /\ args.pattern = "square" /\ args.size = 10 * Unit /\ Len(yielded) = MaxCount
  /\ yielded[2].pt = <<-10 * Unit, -10 * Unit>> /\ yielded[9].pt = <<-10 * Unit, 0>>
  /\ yielded[10].pt = <<-20 * Unit, -20 * Unit>>
  /\ yielded[25].pt = <<-20 * Unit, -10 * Unit>>

\* ------------------------------------------------------------------ C17
\* C17: every run comes to an end (main returns, an exception or os._exit
\* ends it, or the process is killed); no more than `count` records are ever
\* attempted; and once the run is over no step is taken any more.
C17_Terminates ==
  /\ <>Terminal
  /\ [](Len(yielded) <= Max(args.count, 0))
  /\ [][~Terminal]_vars

C17_Witness ==
  /\ pc = "returned" /\ args.count = FairMaxCount /\ args.size > 0
  /\ Len(yielded) = FairMaxCount /\ Len(out) = FairMaxCount

\* ------------------------------------------------------------------ C18
RECURSIVE AfterNexts(_, _)
\* the generator of arguments a after n calls of next()
AfterNexts(a, n) == IF n = 0 THEN NewPoints(a) ELSE PointsNext(a, AfterNexts(a, n - 1))

RECURSIVE AfterColors(_, _)
\* the random source after n colors were drawn from it
AfterColors(r, n) == IF n = 0 THEN r ELSE RandomHexColor(AfterColors(r, n - 1)).rng

\* the i-th color (i from 1) of a run seeded with s
NthColor(s, i) == RandomHexColor(AfterColors(NewRandom(s), i - 1)).color

\* C18: every emission step advances the generator once and draws three
\* values, so the i-th record carries the start offset plus the i-th point
\* of the pattern and the i-th color; a run with count N therefore writes
\* the first N records of a run of the same configuration and seed with a
\* count M >= N.
C18_PrefixOfLongerRun ==
  /\ Len(out) = index
  /\ Len(yielded) \in {index, index + 1}
  /\ rng # None => rng[1].n = 3 * Len(yielded)
  /\ points # None => points[1] = AfterNexts(args, Len(yielded))
  /\ \A i \in 1..Len(out) :
       /\ <<out[i].x, out[i].y>> =
            <<args.start[1] + AfterNexts(args, i).pt[1],
              args.start[2] + AfterNexts(args, i).pt[2]>>
       /\ args.seed # None => out[i].props.fill = NthColor(args.seed[1], i)
  /\ (other[1].args = [args EXCEPT !.count = other[1].args.count] /\ args.seed # None) =>
       /\ AgreeSoFar(out, other[1].out)
       /\ (BothReturned /\ args.count <= other[1].args.count) =>
            out = SubSeq(other[1].out, 1, args.count)

C18_Witness ==
  /\ args.count = 2 /\ other[1].args = [args EXCEPT !.count = PairMaxCount]
  /\ args.seed = Some(1) /\ args.pattern = "spiral" /\ args.size > 0
  /\ BothReturned /\ Len(other[1].out) = PairMaxCount
  /\ out = SubSeq(other[1].out, 1, 2)

\* ------------------------------------------------------------------ C19
\* C19: the spiral generator yields no point twice, and each point lies one
\* step from the point before it, along exactly one of the two axes.
C19_SpiralSelfAvoiding ==
  args.pattern = "spiral" =>
    /\ \A i, j \in 1..Len(yielded) : i # j => yielded[i].pt # yielded[j].pt
    /\ \A i \in 1..(Len(yielded) - 1) :
         LET dx == Abs(yielded[i + 1].pt[1] - yielded[i].pt[1])
             dy == Abs(yielded[i + 1].pt[2] - yielded[i].pt[2])
         IN \/ dx = args.size /\ dy = 0
            \/ dx = 0 /\ dy = args.size

C19_Witness ==
  /\ args.pattern = "spiral" /\ args.size = Unit /\ Len(yielded) = MaxCount
  /\ Cardinality({yielded[i].pt : i \in 1..Len(yielded)}) = MaxCount

\* ------------------------------------------------------------------ C20
\* the lattice points at Chebyshev distance r from the origin, times step
ChebyshevRing(r, step) ==
  {<<a * step, b * step>> : a, b \in -r..r} \ {<<a * step, b * step>> : a, b \in (1 - r)..(r - 1)}

\* the points yielded while the ring variable was at most r
YieldedUpTo(r) == {yielded[i].pt : i \in {k \in 1..Len(yielded) : yielded[k].ring <= r}}

\* C20: the square ring generator yields no point twice; every point of
\* ring r has Chebyshev distance r * step from the origin; a complete ring
\* r is all of these lattice points, and with it the (2r+1) x (2r+1) lattice
\* square has been yielded in full.
C20_SquareRingCover ==
  args.pattern = "square" =>
    /\ \A i, j \in 1..Len(yielded) : i # j => yielded[i].pt # yielded[j].pt
    /\ \A i \in 1..Len(yielded) :
         Max(Abs(yielded[i].pt[1]), Abs(yielded[i].pt[2])) = yielded[i].ring * args.size
    /\ \A r \in 1..Len(yielded) :
         RingComplete(r) =>
           /\ {yielded[i].pt : i \in RingYields(r)} = ChebyshevRing(r, args.size)
           /\ YieldedUpTo(r) = {<<a * args.size, b * args.size>> : a, b \in -r..r}
           /\ Cardinality(YieldedUpTo(r)) = (2 * r + 1) * (2 * r + 1)

C20_Witness ==
  /\ args.pattern = "square" /\ args.size = 10 * Unit /\ RingComplete(2)
  /\ Cardinality(YieldedUpTo(2)) = 25
  /\ <<20 * Unit, 20 * Unit>> \in YieldedUpTo(2)

====
